---- MODULE Spec2Model ----
(***************************************************************************)
(* Model of src/excel_processor.py: the ExcelProcessor pipeline that       *)
(* classifies a results spreadsheet by its name, resolves the extraction   *)
(* instructions, runs every region extractor and stores the fragments in   *)
(* test_data.                                                              *)
(*                                                                         *)
(* Representation.                                                         *)
(*  - A cell value is a record [t, s, n]: t is the Python type, s the      *)
(*    text as a sequence of tokens, n the number (floats are counted in    *)
(*    tenths, so 20.5 is F(205)).                                          *)
(*  - A Python dict (of any nesting) is a function from key paths to leaf  *)
(*    cells; an empty dict at a path is the leaf EmptyDict, and a scalar   *)
(*    is the function on the empty path.                                   *)
(*  - A DataFrame is a sequence of [label, cells]: label is the index      *)
(*    label of the row, its place in the sequence the position.            *)
(***************************************************************************)
EXTENDS Integers, Sequences, FiniteSets, TLC

\* ------------------------------------------------------------------ bounds
\* longest document name, in tokens
MaxNameLen == 3
\* most rows of a region that the documents of the model carry
MaxRows == 2
\* calls of run() on one pipeline object
MaxRuns == 2
\* pipeline objects constructed on one document
MaxObjects == 2

\* ------------------------------------------------------------ cell values
Cell(t, s, n) == [t |-> t, s |-> s, n |-> n]
S(toks) == Cell("str", toks, 0)
T(tok) == S(<<tok>>)
I(k) == Cell("int", <<>>, k)
F(tenths) == Cell("float", <<>>, tenths)
NaN == Cell("nan", <<>>, 0)
None == Cell("none", <<>>, 0)
EmptyDict == Cell("dict", <<>>, 0)
UnsetAttr == Cell("unset", <<>>, 0)

Abs(k) == IF k < 0 THEN 0 - k ELSE k

\* str(x) of a cell
PyStr(c) ==
    CASE c.t = "str" -> c
      [] c.t = "int" -> T(ToString(c.n))
      [] c.t = "float" ->
            S((IF c.n < 0 THEN <<"-">> ELSE <<>>)
              \o <<ToString(Abs(c.n) \div 10), ".", ToString(Abs(c.n) % 10)>>)
      [] c.t = "nan" -> T("nan")
      [] OTHER -> T("None")

\* the tokens that spell an integer literal
IsIntToken(tok) == \E k \in -99..999 : tok = ToString(k)
IntOfToken(tok) == CHOOSE k \in -99..999 : tok = ToString(k)

\* int(x) of a cell: [ok, v]; not ok is the ValueError / TypeError of int()
PyInt(c) ==
    CASE c.t = "int" -> [ok |-> TRUE, v |-> c.n]
      [] c.t = "float" ->
            [ok |-> TRUE,
             v |-> IF c.n < 0 THEN 0 - (Abs(c.n) \div 10) ELSE c.n \div 10]
      [] c.t = "str" /\ Len(c.s) = 1 /\ IsIntToken(c.s[1]) ->
            [ok |-> TRUE, v |-> IntOfToken(c.s[1])]
      [] OTHER -> [ok |-> FALSE, v |-> 0]

\* ------------------------------------------------------------------ dicts
\* p is a prefix of q
IsPrefix(p, q) == Len(p) <= Len(q) /\ SubSeq(q, 1, Len(p)) = p

\* {}
NewDict == (<<>> :> EmptyDict)
\* a scalar as a value
Leaf(c) == (<<>> :> c)

\* the value stored at path p of d
Sub(d, p) ==
    [q \in {SubSeq(r, Len(p) + 1, Len(r)) : r \in {r \in DOMAIN d : IsPrefix(p, r)}}
        |-> d[p \o q]]

\* the keys of the dict at path p of d
Keys(d, p) == {r[Len(p) + 1] : r \in {r \in DOMAIN d : IsPrefix(p, r) /\ Len(r) > Len(p)}}

\* d[p[1]]...[p[n]] = v: whatever was stored at p is replaced as a whole
SetPath(d, p, v) ==
    LET keep == {r \in DOMAIN d : ~IsPrefix(p, r) /\ ~(IsPrefix(r, p) /\ d[r] = EmptyDict)}
        new == {p \o q : q \in DOMAIN v}
    IN [r \in keep \cup new |-> IF r \in new THEN v[SubSeq(r, Len(p) + 1, Len(r))] ELSE d[r]]

\* ------------------------------------------------------------ text helpers
\* the text t starts with the token sequence pat
StartsWith(t, pat) == IsPrefix(pat, t)

\* the token sequence pat occurs in t at position i
OccursAt(t, pat, i) == i + Len(pat) - 1 <= Len(t) /\ SubSeq(t, i, i + Len(pat) - 1) = pat

\* re.IGNORECASE on the letters the patterns are made of
LowerTok(tok) ==
    CASE tok = "RESULTS5-2" -> "results5-2"
      [] tok = "A" -> "a"
      [] tok = "B" -> "b"
      [] OTHER -> tok
Lower(t) == [i \in 1..Len(t) |-> LowerTok(t[i])]

\* re.match(r'.*<sig>.*', t, re.IGNORECASE): '.' matches no line break, and
\* re.match is anchored at the start, so sig must occur in the first line of t
ReMatchAnywhere(sig, t) ==
    \E i \in 1..Len(t) :
        /\ OccursAt(Lower(t), sig, i)
        /\ \A j \in 1..(i - 1) : t[j] # "\n"

\* str.replace(pat, ''): every occurrence of pat is removed, left to right
RECURSIVE Replace(_, _)
Replace(t, pat) ==
    IF pat = <<>> \/ t = <<>> THEN t
    ELSE IF OccursAt(t, pat, 1) THEN Replace(SubSeq(t, Len(pat) + 1, Len(t)), pat)
    ELSE <<t[1]>> \o Replace(Tail(t), pat)

\* str.strip()
RECURSIVE Strip(_)
Strip(t) ==
    IF t = <<>> THEN t
    ELSE IF t[1] = " " THEN Strip(Tail(t))
    ELSE IF t[Len(t)] = " " THEN Strip(SubSeq(t, 1, Len(t) - 1))
    ELSE t

\* str.split('/'): the pieces between the '/' tokens
RECURSIVE Split(_)
Split(t) ==
    IF \A i \in 1..Len(t) : t[i] # "/" THEN <<t>>
    ELSE LET i == CHOOSE i \in 1..Len(t) : t[i] = "/" /\ \A j \in 1..(i - 1) : t[j] # "/"
         IN <<SubSeq(t, 1, i - 1)>> \o Split(SubSeq(t, i + 1, Len(t)))

\* ----------------------------------------------------------------- errors
Err(kind, names, region) == [kind |-> kind, names |-> names, region |-> region]
NoErr == Err("none", "", "")

\* one logger.error call: the message and the text formatted into it
LogEntry(msg, arg) == [msg |-> msg, arg |-> arg]

\* ------------------------------------------------------- SectionType.__set__
\* the tag the setter stores for a document name, "unset" when it stores none
Classify(nm) ==
    IF ReMatchAnywhere(<<"results5-2", "a">>, nm) THEN "5-2A"
    ELSE IF ReMatchAnywhere(<<"results5-2", "b">>, nm) THEN "5-2B"
    ELSE "unset"

\* ------------------------------------------------- SetDataSources.__set__
HeaderNone == {<<"header", "None">>}

\* the extraction instructions of section 5-2A
DataSources2A ==
    [r \in {"identifying_information", "conditioned_zone_loads_non_free_float",
            "solar_radiation_annual_incident",
            "solar_radiation_unshaded_annual_transmitted",
            "solar_radiation_shaded_annual_transmitted", "sky_temperature_output",
            "annual_hourly_zone_temperature_bin_data",
            "free_float_case_zone_temperatures", "monthly_conditioned_zone_loads"} |->
        CASE r = "identifying_information" -> <<"YourData", 60, "B:C", 3, HeaderNone>>
          [] r = "conditioned_zone_loads_non_free_float" -> <<"YourData", 68, "B:L", 46>>
          [] r = "solar_radiation_annual_incident" -> <<"YourData", 153, "B:C", 5>>
          [] r = "solar_radiation_unshaded_annual_transmitted" -> <<"YourData", 161, "B:C", 4>>
          [] r = "solar_radiation_shaded_annual_transmitted" -> <<"YourData", 168, "B:C", 2>>
          [] r = "sky_temperature_output" -> <<"YourData", 176, "B:K", 1>>
          [] r = "annual_hourly_zone_temperature_bin_data" -> <<"YourData", 328, "B:C", 149>>
          [] r = "free_float_case_zone_temperatures" -> <<"YourData", 128, "B:K", 7>>
          [] OTHER -> <<"YourData", 188, "B:R", 12>>]

\* the extraction instructions of section 5-2B
DataSources2B ==
    [r \in {"identifying_information", "steady_state_cases"} |->
        IF r = "identifying_information" THEN <<"YourData", 4, "E:I", 4, HeaderNone>>
        ELSE <<"YourData", 57, "D:H", 6, HeaderNone>>]

\* no data_sources argument (None, or an empty dict)
NoSources == [r \in {} |-> <<>>]

\* the outcome of the setter: the instructions stored, or the failure of
\* reading section_type while no tag is stored
ResolveDataSources(value, tag) ==
    IF value # NoSources THEN [err |-> NoErr, sources |-> value]
    ELSE IF tag = "unset" THEN [err |-> Err("AttributeError", "_section_type", ""), sources |-> NoSources]
    ELSE IF tag = "5-2A" THEN [err |-> NoErr, sources |-> DataSources2A]
    ELSE [err |-> NoErr, sources |-> DataSources2B]

\* --------------------------------------------------------------- _get_data
\* [*list(data_source) + [{}] * 5][:5]
PadSource(src) == SubSeq(src \o <<{}, {}, {}, {}, {}>>, 1, 5)

\* pd.read_excel: the rectangle of the document at the coordinates, as a
\* DataFrame with the row labels 0, 1, ...
ReadExcel(document, args) ==
    [i \in 1..Len(document[args]) |-> [label |-> i - 1, cells |-> document[args][i]]]

\* the error message of _get_data names this section whatever was asked for
GetDataNamed(region_name) == "identifying_information"

_get_data(sources, document, region_name) ==
    IF region_name \notin DOMAIN sources
    THEN [err |-> Err("ASHRAE140ProcessingError", GetDataNamed(region_name), region_name),
          df |-> <<>>]
    ELSE [err |-> NoErr, df |-> ReadExcel(document, PadSource(sources[region_name]))]

\* ------------------------------------------------------ DataFrame helpers
\* df.columns = names fails unless every row has as many cells as names
ColumnsFit(df, names) == \A k \in 1..Len(df) : Len(df[k].cells) = Len(names)

\* the position of a column name
Col(names, c) == CHOOSE j \in 1..Len(names) : names[j] = c

\* Series.to_dict() of the columns cols of one row
RowToDict(names, cells, cols) ==
    IF cols = {} THEN NewDict
    ELSE [p \in {<<T(names[j])>> : j \in cols} |->
            cells[CHOOSE j \in cols : <<T(names[j])>> = p]]

\* a result of an extractor: the failure it raised, or its dictionary
Raised(kind, names, region) == [err |-> Err(kind, names, region), frag |-> NewDict]
Returned(data_d) == [err |-> NoErr, frag |-> data_d]

\* The DataCleanser collaborator (src/data_cleanser.py is not part of the
\* sources at hand): it raises a validation failure on a cell holding an Excel
\* error text, and otherwise drops the rows that have an empty cell. The rows
\* that survive keep their labels, or are renumbered when reindex is set.
CleanseFails(df) == \E k \in 1..Len(df) : \E j \in 1..Len(df[k].cells) : df[k].cells[j] = T("#VALUE!")
RowValid(row) == \A j \in 1..Len(row.cells) : row.cells[j] # NaN
Cleanse(df, reindex) ==
    LET kept == SelectSeq(df, RowValid)
    IN IF reindex THEN [k \in 1..Len(kept) |-> [label |-> k - 1, cells |-> kept[k].cells]]
       ELSE kept

\* ------------------------------------------ _extract_identifying_information_2a
\* one of the three "if not re.match(...)" blocks: the label cell at row i
\* must be text (re.match raises TypeError otherwise); the field is the cell
\* beside it when the label starts with the expected word, None otherwise
LabelledField(df, i, word) ==
    LET label == df[i + 1].cells[1]
    IN IF label.t # "str" THEN [raised |-> TRUE, found |-> FALSE, value |-> None]
       ELSE IF ~StartsWith(label.s, <<word>>) THEN [raised |-> FALSE, found |-> FALSE, value |-> None]
       ELSE [raised |-> FALSE, found |-> TRUE, value |-> df[i + 1].cells[2]]

IdentResult(err, frag, nm, ver, date, logs) ==
    [err |-> err, frag |-> frag, software_name |-> nm, software_version |-> ver,
     software_release_date |-> date, logs |-> logs]

_extract_identifying_information_2a(sources, document) ==
    LET g == _get_data(sources, document, "identifying_information")
        df == g.df
        n == LabelledField(df, 0, "Software")
        v == LabelledField(df, 1, "Version")
        d == LabelledField(df, 2, "Date")
        typeError == Err("TypeError", "expected string or bytes-like object", "identifying_information")
        logN == IF n.found THEN <<>> ELSE <<LogEntry("Software name information not found", <<>>)>>
        logV == IF v.found THEN <<>> ELSE <<LogEntry("Software version information not found", <<>>)>>
        logD == IF d.found THEN <<>> ELSE <<LogEntry("Software release date information not found", <<>>)>>
    IN IF g.err # NoErr THEN IdentResult(g.err, NewDict, UnsetAttr, UnsetAttr, UnsetAttr, <<>>)
       ELSE IF Len(df) < 3 \/ \E k \in 1..3 : Len(df[k].cells) < 2
       THEN IdentResult(Err("IndexError", "", "identifying_information"), NewDict,
                        UnsetAttr, UnsetAttr, UnsetAttr, <<>>)
       ELSE IF n.raised THEN IdentResult(typeError, NewDict, UnsetAttr, UnsetAttr, UnsetAttr, <<>>)
       ELSE IF v.raised THEN IdentResult(typeError, NewDict, n.value, UnsetAttr, UnsetAttr, logN)
       ELSE IF d.raised THEN IdentResult(typeError, NewDict, n.value, v.value, UnsetAttr, logN \o logV)
       ELSE IdentResult(NoErr,
                (<<T("software_name")>> :> n.value)
                    @@ (<<T("software_version")>> :> v.value)
                    @@ (<<T("software_release_date")>> :> PyStr(d.value)),
                n.value, v.value, d.value, logN \o logV \o logD)

\* ------------------------------------------ _extract_identifying_information_2b
_extract_identifying_information_2b(sources, document) ==
    LET g == _get_data(sources, document, "identifying_information")
        df == g.df
        nameAndVersion == df[1].cells[1]
        releaseDate == df[2].cells[5]
        shortName == df[3].cells[5]
        submittal == df[4].cells[5]
    IN IF g.err # NoErr THEN IdentResult(g.err, NewDict, UnsetAttr, UnsetAttr, UnsetAttr, <<>>)
       ELSE IF Len(df) < 4 \/ \E k \in 1..4 : Len(df[k].cells) < 5
       THEN IdentResult(Err("IndexError", "", "identifying_information"), NewDict,
                        UnsetAttr, UnsetAttr, UnsetAttr, <<>>)
       ELSE IdentResult(NoErr,
                (<<T("program_name_and_version")>> :> nameAndVersion)
                    @@ (<<T("program_version_release_date")>> :> PyStr(releaseDate))
                    @@ (<<T("program_name_short")>> :> shortName)
                    @@ (<<T("results_submittal_date")>> :> PyStr(submittal)),
                shortName,
                S(Strip(Replace(PyStr(nameAndVersion).s, PyStr(shortName).s))),
                PyStr(releaseDate), <<>>)

\* ------------------------------------------------- per-case tabular regions
\* "for idx, row in df.iterrows(): ... df.iloc[idx, 1:]": idx is the LABEL of
\* the k-th row, and df.iloc reads the row at POSITION idx
RowAtLabel(df, k) == df[k].label + 1

RECURSIVE CaseRowsToDict(_, _, _, _, _)
CaseRowsToDict(df, names, k, data_d, region) ==
    IF k > Len(df) THEN Returned(data_d)
    ELSE IF RowAtLabel(df, k) > Len(df) THEN Raised("IndexError", "", region)
    ELSE CaseRowsToDict(df, names, k + 1,
            SetPath(data_d, <<PyStr(df[k].cells[1])>>,
                    RowToDict(names, df[RowAtLabel(df, k)].cells, 2..Len(names))),
            region)

ZoneLoadColumns ==
    <<"case", "annual_heating_MWh", "annual_cooling_MWh", "peak_heating_kW",
      "peak_heating_month", "peak_heating_day", "peak_heating_hour", "peak_cooling_kW",
      "peak_cooling_month", "peak_cooling_day", "peak_cooling_hour">>

\* df['case'] = df['case'].astype(str)
CaseAsStr(df) ==
    [k \in 1..Len(df) |->
        [label |-> df[k].label,
         cells |-> [j \in 1..Len(df[k].cells) |->
                        IF j = 1 THEN PyStr(df[k].cells[j]) ELSE df[k].cells[j]]]]

_extract_conditioned_zone_loads_non_free_float(sources, document, reindex) ==
    LET region == "conditioned_zone_loads_non_free_float"
        g == _get_data(sources, document, region)
        df == CaseAsStr(g.df)
    IN IF g.err # NoErr THEN [err |-> g.err, frag |-> NewDict]
       ELSE IF ~ColumnsFit(g.df, ZoneLoadColumns) THEN Raised("ValueError", "Length mismatch", region)
       ELSE IF CleanseFails(df) THEN Raised("CleansingError", "", region)
       ELSE CaseRowsToDict(Cleanse(df, reindex), ZoneLoadColumns, 1, NewDict, region)

FreeFloatColumns ==
    <<"case", "average_temperature", "minimum_temperature", "minimum_month",
      "minimum_day", "minimum_hour", "maximum_temperature", "maximum_month",
      "maximum_day", "maximum_hour">>

_extract_free_float_case_zone_temperatures(sources, document, reindex) ==
    LET region == "free_float_case_zone_temperatures"
        g == _get_data(sources, document, region)
    IN IF g.err # NoErr THEN [err |-> g.err, frag |-> NewDict]
       ELSE IF ~ColumnsFit(g.df, FreeFloatColumns) THEN Raised("ValueError", "Length mismatch", region)
       ELSE IF CleanseFails(g.df) THEN Raised("CleansingError", "", region)
       ELSE CaseRowsToDict(Cleanse(g.df, reindex), FreeFloatColumns, 1, NewDict, region)

\* ------------------------------------------ _extract_solar_radiation_annual_incident
RECURSIVE IncidentRows(_, _, _)
IncidentRows(df, k, data_d) ==
    IF k > Len(df) THEN data_d
    ELSE IncidentRows(df, k + 1,
            SetPath(data_d, <<T("600"), T("Surface"), PyStr(df[k].cells[1])>>,
                    (<<T("kWh/m2")>> :> df[k].cells[2])))

_extract_solar_radiation_annual_incident(sources, document, reindex) ==
    LET region == "solar_radiation_annual_incident"
        g == _get_data(sources, document, region)
    IN IF g.err # NoErr THEN [err |-> g.err, frag |-> NewDict]
       ELSE IF ~ColumnsFit(g.df, <<"Surface", "kWh/m2">>) THEN Raised("ValueError", "Length mismatch", region)
       ELSE IF CleanseFails(g.df) THEN Raised("CleansingError", "", region)
       ELSE Returned(IncidentRows(Cleanse(g.df, reindex), 1,
                        (<<T("600"), T("Surface")>> :> EmptyDict)))

\* ------------------------- _extract_solar_radiation_(un)shaded_annual_transmitted
\* df['Case/Surface'].str.split(pat='/', expand=True): one column per piece,
\* as many columns as the longest split; a cell that is not text gives NaN in
\* every column, a short split gives None in the columns it does not reach
SplitWidth(df) ==
    LET widths == {Len(Split(df[k].cells[1].s)) : k \in {k \in 1..Len(df) : df[k].cells[1].t = "str"}}
    IN IF widths = {} THEN 0 ELSE CHOOSE w \in widths : \A u \in widths : u <= w

SplitPiece(c, i) ==
    IF c.t # "str" THEN NaN
    ELSE IF i > Len(Split(c.s)) THEN None
    ELSE S(Split(c.s)[i])

\* the frame after the split and the drop of 'Case/Surface': kWh/m2, Case, Surface
SplitCaseSurface(df) ==
    [k \in 1..Len(df) |->
        [label |-> df[k].label,
         cells |-> <<df[k].cells[2], SplitPiece(df[k].cells[1], 1), SplitPiece(df[k].cells[1], 2)>>]]

\* data_d.update({row['Case']: {'Surface': {row['Surface']: {'kWh/m2': ...}}}})
TransmittedUpdate(data_d, case, surface, value) ==
    SetPath(data_d, <<case>>, (<<T("Surface"), surface, T("kWh/m2")>> :> value))

RECURSIVE TransmittedRows(_, _, _)
TransmittedRows(df, k, data_d) ==
    IF k > Len(df) THEN data_d
    ELSE TransmittedRows(df, k + 1,
            TransmittedUpdate(data_d, df[k].cells[2], df[k].cells[3], df[k].cells[1]))

ExtractTransmitted(sources, document, reindex, region) ==
    LET g == _get_data(sources, document, region)
        df == SplitCaseSurface(g.df)
    IN IF g.err # NoErr THEN [err |-> g.err, frag |-> NewDict]
       ELSE IF ~ColumnsFit(g.df, <<"Case/Surface", "kWh/m2">>) THEN Raised("ValueError", "Length mismatch", region)
       ELSE IF SplitWidth(g.df) = 0 THEN Raised("AttributeError", ".str accessor", region)
       ELSE IF SplitWidth(g.df) # 2 THEN Raised("ValueError", "Columns must be same length as key", region)
       ELSE IF CleanseFails(df) THEN Raised("CleansingError", "", region)
       ELSE Returned(TransmittedRows(Cleanse(df, reindex), 1, NewDict))

_extract_solar_radiation_unshaded_annual_transmitted(sources, document, reindex) ==
    ExtractTransmitted(sources, document, reindex, "solar_radiation_unshaded_annual_transmitted")

_extract_solar_radiation_shaded_annual_transmitted(sources, document, reindex) ==
    ExtractTransmitted(sources, document, reindex, "solar_radiation_shaded_annual_transmitted")

\* ------------------------------------------------ _extract_sky_temperature_output
SkyColumns ==
    <<"case", "Ann. Hourly Average C", "Minimum C", "Minimum Month", "Minimum Day",
      "Minimum Hour", "Maximum C", "Maximum Month", "Maximum Day", "Maximum Hour">>

RECURSIVE SkyRows(_, _, _)
SkyRows(df, k, data_d) ==
    IF k > Len(df) THEN data_d
    ELSE LET cell(c) == df[k].cells[Col(SkyColumns, c)]
             avg == SetPath(data_d, <<T("600"), T("Average")>>,
                        (<<T("C")>> :> cell("Ann. Hourly Average C")))
             min == SetPath(avg, <<T("600"), T("Minimum")>>,
                        (<<T("C")>> :> cell("Minimum C"))
                            @@ (<<T("Month")>> :> cell("Minimum Month"))
                            @@ (<<T("Hour")>> :> cell("Minimum Hour")))
             max == SetPath(min, <<T("600"), T("Maximum")>>,
                        (<<T("C")>> :> cell("Maximum C"))
                            @@ (<<T("Month")>> :> cell("Maximum Month"))
                            @@ (<<T("Hour")>> :> cell("Maximum Hour")))
         IN SkyRows(df, k + 1, max)

_extract_sky_temperature_output(sources, document, reindex) ==
    LET region == "sky_temperature_output"
        g == _get_data(sources, document, region)
    IN IF g.err # NoErr THEN [err |-> g.err, frag |-> NewDict]
       ELSE IF ~ColumnsFit(g.df, SkyColumns) THEN Raised("ValueError", "Length mismatch", region)
       ELSE IF CleanseFails(g.df) THEN Raised("CleansingError", "", region)
       ELSE Returned(SkyRows(Cleanse(g.df, reindex), 1, (<<T("600")>> :> EmptyDict)))

\* ------------------------------ _extract_hourly_annual_zone_temperature_bin_data
RECURSIVE BinRows(_, _, _)
BinRows(df, k, data_d) ==
    IF k > Len(df) THEN Returned(data_d)
    ELSE LET bin == PyInt(df[k].cells[1])
             hours == PyInt(df[k].cells[2])
         IN IF ~bin.ok \/ ~hours.ok
            THEN Raised("ValueError", "int()", "annual_hourly_zone_temperature_bin_data")
            ELSE BinRows(df, k + 1,
                    SetPath(data_d, <<T("900FF"), T("temperature_bin_c"), I(bin.v)>>,
                            (<<T("number_of_hours")>> :> I(hours.v))))

_extract_hourly_annual_zone_temperature_bin_data(sources, document) ==
    LET region == "annual_hourly_zone_temperature_bin_data"
        g == _get_data(sources, document, region)
    IN IF g.err # NoErr THEN [err |-> g.err, frag |-> NewDict]
       ELSE IF ~ColumnsFit(g.df, <<"temperature_bin_c", "number_of_hours">>)
       THEN Raised("ValueError", "Length mismatch", region)
       ELSE BinRows(g.df, 1, (<<T("900FF"), T("temperature_bin_c")>> :> EmptyDict))

\* ---------------------------------------- _extract_monthly_conditioned_zone_loads
MonthlyColumns ==
    <<"month", "total_heating_kwh", "total_cooling_kwh", "peak_heating_kw",
      "peak_heating_day", "peak_heating_hour", "peak_cooling_kw", "peak_cooling_day",
      "peak_cooling_hour", "case">>

\* df.iloc[:, cols].copy() with the column 'case' added
MonthlyBlock(df, cols, case) ==
    [k \in 1..Len(df) |->
        [label |-> df[k].label,
         cells |-> [j \in 1..Len(cols) |-> df[k].cells[cols[j]]] \o <<T(case)>>]]

\* pd.concat([a, b], ignore_index=True)
ConcatIgnoreIndex(a, b) ==
    [k \in 1..(Len(a) + Len(b)) |-> [label |-> k - 1, cells |-> (a \o b)[k].cells]]

RECURSIVE MonthlyRows(_, _, _)
MonthlyRows(df, k, data_d) ==
    IF k > Len(df) THEN data_d
    ELSE LET row == df[k].cells
             case_number == PyStr(row[Col(MonthlyColumns, "case")])
             row_obj == RowToDict(MonthlyColumns, df[df[k].label + 1].cells, 2..9)
         IN MonthlyRows(df, k + 1,
                SetPath(data_d, <<case_number, row[Col(MonthlyColumns, "month")]>>, row_obj))

_extract_monthly_conditioned_zone_loads(sources, document, reindex) ==
    LET region == "monthly_conditioned_zone_loads"
        g == _get_data(sources, document, region)
        df_600 == MonthlyBlock(g.df, <<1, 2, 3, 4, 5, 6, 7, 8, 9>>, "600")
        df_900 == MonthlyBlock(g.df, <<1, 10, 11, 12, 13, 14, 15, 16, 17>>, "900")
    IN IF g.err # NoErr THEN [err |-> g.err, frag |-> NewDict]
       ELSE IF \E k \in 1..Len(g.df) : Len(g.df[k].cells) < 17 THEN Raised("IndexError", "", region)
       ELSE IF CleanseFails(df_600) \/ CleanseFails(df_900) THEN Raised("CleansingError", "", region)
       ELSE Returned(MonthlyRows(
                ConcatIgnoreIndex(Cleanse(df_600, reindex), Cleanse(df_900, reindex)),
                1, NewDict))

\* ------------------------------------------------------ _extract_steady_state_cases
SteadyColumns == <<"cases", "qfloor", "qzone", "Tzone", "tsim">>

RECURSIVE SteadyRows(_, _, _)
SteadyRows(df, k, data_d) ==
    IF k > Len(df) THEN data_d
    ELSE SteadyRows(df, k + 1,
            SetPath(data_d, <<df[k].cells[1]>>, RowToDict(SteadyColumns, df[k].cells, 2..5)))

_extract_steady_state_cases(sources, document) ==
    LET region == "steady_state_cases"
        g == _get_data(sources, document, region)
    IN IF g.err # NoErr THEN [err |-> g.err, frag |-> NewDict]
       ELSE IF ~ColumnsFit(g.df, SteadyColumns) THEN Raised("ValueError", "Length mismatch", region)
       ELSE Returned(SteadyRows(g.df, 1, NewDict))

\* -------------------------------------------- SetProcessingFunctions.__set__
\* the keys of the dictionary the setter builds, in the order of the literal
ProcessingKeys(tag) ==
    IF tag = "5-2A"
    THEN <<"identifying_information", "conditioned_zone_loads_non_free_float",
           "solar_radiation_annual_incident", "solar_radiation_unshaded_annual_transmitted",
           "solar_radiation_shaded_annual_transmitted", "sky_temperature_output",
           "hourly_annual_zone_temperature_bin_data", "free_float_case_zone_temperatures",
           "monthly_conditioned_zone_loads">>
    ELSE IF tag = "5-2B" THEN <<"identifying_information", "steady_state_cases">>
    ELSE <<>>

\* the call that the literal makes for a key
Extractor(tag, key, sources, document, reindex) ==
    CASE key = "identifying_information" /\ tag = "5-2A" ->
            _extract_identifying_information_2a(sources, document)
      [] key = "identifying_information" /\ tag # "5-2A" ->
            _extract_identifying_information_2b(sources, document)
      [] key = "conditioned_zone_loads_non_free_float" ->
            _extract_conditioned_zone_loads_non_free_float(sources, document, reindex)
      [] key = "solar_radiation_annual_incident" ->
            _extract_solar_radiation_annual_incident(sources, document, reindex)
      [] key = "solar_radiation_unshaded_annual_transmitted" ->
            _extract_solar_radiation_unshaded_annual_transmitted(sources, document, reindex)
      [] key = "solar_radiation_shaded_annual_transmitted" ->
            _extract_solar_radiation_shaded_annual_transmitted(sources, document, reindex)
      [] key = "sky_temperature_output" ->
            _extract_sky_temperature_output(sources, document, reindex)
      [] key = "hourly_annual_zone_temperature_bin_data" ->
            _extract_hourly_annual_zone_temperature_bin_data(sources, document)
      [] key = "free_float_case_zone_temperatures" ->
            _extract_free_float_case_zone_temperatures(sources, document, reindex)
      [] key = "monthly_conditioned_zone_loads" ->
            _extract_monthly_conditioned_zone_loads(sources, document, reindex)
      [] OTHER -> _extract_steady_state_cases(sources, document)

\* a variant of EvalEntries that leaves out the entry of a call that raised
RECURSIVE EvalEntriesSkipping(_, _, _, _, _, _)
EvalEntriesSkipping(tag, i, sources, document, reindex, acc) ==
    IF i > Len(ProcessingKeys(tag)) THEN [err |-> NoErr, functions |-> acc]
    ELSE LET r == Extractor(tag, ProcessingKeys(tag)[i], sources, document, reindex)
         IN IF r.err # NoErr
            THEN EvalEntriesSkipping(tag, i + 1, sources, document, reindex, acc)
            ELSE EvalEntriesSkipping(tag, i + 1, sources, document, reindex,
                    SetPath(acc, <<T(ProcessingKeys(tag)[i])>>, r.frag))

\* the literal is evaluated entry by entry; the first call that raises ends it
RECURSIVE EvalEntries(_, _, _, _, _, _)
EvalEntries(tag, i, sources, document, reindex, acc) ==
    IF i > Len(ProcessingKeys(tag)) THEN [err |-> NoErr, functions |-> acc]
    ELSE LET r == Extractor(tag, ProcessingKeys(tag)[i], sources, document, reindex)
         IN IF r.err # NoErr THEN [err |-> r.err, functions |-> acc]
            ELSE EvalEntries(tag, i + 1, sources, document, reindex,
                    SetPath(acc, <<T(ProcessingKeys(tag)[i])>>, r.frag))

\* ------------------------------------------------------- ExcelProcessor.run
\* dict.update(other): every top-level key of other is set to other's value
RECURSIVE UpdateKeys(_, _, _)
UpdateKeys(d, other, keys) ==
    IF keys = {} THEN d
    ELSE LET k == CHOOSE k \in keys : TRUE
         IN UpdateKeys(SetPath(d, <<k>>, Sub(other, <<k>>)), other, keys \ {k})

\* a variant of DictUpdate that empties a dictionary that is already filled
DictUpdateToggling(d, other) ==
    IF Keys(d, <<>>) = {} THEN UpdateKeys(d, other, Keys(other, <<>>)) ELSE NewDict

\* a variant of DictUpdate that merges the values of other by their own key
\* paths, the last one written winning
DictUpdateMerging(d, other) ==
    LET ks == Keys(other, <<>>)
        ps == UNION {DOMAIN Sub(other, <<k>>) : k \in ks}
    IN [p \in ps |-> Sub(other, <<CHOOSE k \in ks : p \in DOMAIN Sub(other, <<k>>)>>)[p]]

DictUpdate(d, other) == UpdateKeys(d, other, Keys(other, <<>>))

\* ------------------------------------------------------------------ state
VARIABLES
    name,                   \* file_location.name, a sequence of tokens
    override,               \* the data_sources argument of the constructor
    file_location,          \* the spreadsheet: read_excel arguments -> rows
    reindex,                \* whether the cleanser renumbers the rows it keeps
    pc,                     \* the statement of __init__ / run() reached
    section_type,           \* obj._section_type
    data_sources,           \* obj._data_sources
    processing_functions,   \* obj._processing_functions
    test_data,              \* obj.test_data
    software_name,
    software_version,
    software_release_date,
    err,                    \* the exception that reached the caller
    log,                    \* the logger.error calls made
    runs,                   \* calls of run() on this object
    objects,                \* pipeline objects constructed so far
    held                    \* test_data of the previous pipeline object

inputs == <<name, override, file_location, reindex>>
vars == <<name, override, file_location, reindex, pc, section_type, data_sources,
          processing_functions, test_data, software_name, software_version,
          software_release_date, err, log, runs, objects, held>>

Unset == Leaf(UnsetAttr)

\* the object as ExcelProcessor.__init__ finds it, before line 121
Fresh ==
    /\ pc = "section_type"
    /\ section_type = "unset"
    /\ data_sources = NoSources
    /\ processing_functions = Unset
    /\ test_data = Unset
    /\ software_name = UnsetAttr
    /\ software_version = UnsetAttr
    /\ software_release_date = UnsetAttr
    /\ err = NoErr
    /\ log = <<>>
    /\ runs = 0

\* line 121: self.section_type = self.file_location
SectionType ==
    /\ pc = "section_type"
    /\ section_type' = Classify(name)
    /\ log' = IF Classify(name) = "unset"
              THEN Append(log, LogEntry("The file name did not match formatting guidelines", name))
              ELSE log
    /\ pc' = "data_sources"
    /\ UNCHANGED <<inputs, data_sources, processing_functions, test_data, software_name,
                   software_version, software_release_date, err, runs, objects, held>>

\* line 122: self.data_sources = data_sources
SetDataSources ==
    /\ pc = "data_sources"
    /\ LET r == ResolveDataSources(override, section_type)
       IN /\ data_sources' = r.sources
          /\ err' = r.err
          /\ pc' = IF r.err = NoErr THEN "processing_functions" ELSE "failed"
    /\ UNCHANGED <<inputs, section_type, processing_functions, test_data, software_name,
                   software_version, software_release_date, log, runs, objects, held>>

\* line 123: self.processing_functions = self.section_type
SetProcessingFunctions ==
    /\ pc = "processing_functions"
    /\ IF section_type = "unset"
       THEN /\ err' = Err("AttributeError", "_section_type", "")
            /\ pc' = "failed"
            /\ UNCHANGED <<processing_functions, software_name, software_version,
                           software_release_date, log>>
       ELSE LET id == Extractor(section_type, "identifying_information", data_sources, file_location, reindex)
                r == EvalEntries(section_type, 1, data_sources, file_location, reindex, NewDict)
            IN /\ software_name' = id.software_name
               /\ software_version' = id.software_version
               /\ software_release_date' = id.software_release_date
               /\ log' = log \o id.logs
               /\ err' = r.err
               /\ processing_functions' = IF r.err = NoErr THEN r.functions ELSE processing_functions
               /\ pc' = IF r.err = NoErr THEN "attributes" ELSE "failed"
    /\ UNCHANGED <<inputs, section_type, data_sources, test_data, runs, objects, held>>

\* lines 124-128: the plain attributes of the object
InitAttributes ==
    /\ pc = "attributes"
    /\ test_data' = NewDict
    /\ software_name' = None
    /\ software_version' = None
    /\ software_release_date' = None
    /\ pc' = "constructed"
    /\ UNCHANGED <<inputs, section_type, data_sources, processing_functions, err, log,
                   runs, objects, held>>

\* run()
run ==
    /\ pc \in {"constructed", "ran"}
    /\ runs < MaxRuns
    /\ test_data' = DictUpdate(test_data, processing_functions)
    /\ runs' = runs + 1
    /\ pc' = "ran"
    /\ UNCHANGED <<inputs, section_type, data_sources, processing_functions, software_name,
                   software_version, software_release_date, err, log, objects, held>>

\* the caller keeps the result and constructs another ExcelProcessor on the
\* same file with the same data_sources argument
NewProcessor ==
    /\ pc = "ran"
    /\ objects < MaxObjects
    /\ held' = test_data
    /\ objects' = objects + 1
    /\ pc' = "section_type"
    /\ section_type' = "unset"
    /\ data_sources' = NoSources
    /\ processing_functions' = Unset
    /\ test_data' = Unset
    /\ software_name' = UnsetAttr
    /\ software_version' = UnsetAttr
    /\ software_release_date' = UnsetAttr
    /\ err' = NoErr
    /\ log' = <<>>
    /\ runs' = 0
    /\ UNCHANGED inputs

Next ==
    \/ SectionType
    \/ SetDataSources
    \/ SetProcessingFunctions
    \/ InitAttributes
    \/ run
    \/ NewProcessor

\* -------------------------------------------------------------- documents
\* all tables of at most MaxRows rows over the given rows
TablesOf(rows) == UNION {[1..n -> rows] : n \in 0..MaxRows}
NonEmptyTablesOf(rows) == UNION {[1..n -> rows] : n \in 1..MaxRows}

\* no two rows of the table have the same first cell
DistinctKeys(table) == \A i, j \in 1..Len(table) : i # j => table[i][1] # table[j][1]

Repeat(c, n) == [j \in 1..n |-> c]

IdentTable2a(l1, l2, l3) ==
    <<<<l1, T("EnergyPlus")>>, <<l2, T("9.0")>>, <<l3, T("2018-09")>>>>

IdentTable2b(longName, shortName) ==
    <<<<longName, NaN, NaN, NaN, NaN>>,
      <<NaN, NaN, NaN, NaN, T("2018-09")>>,
      <<NaN, NaN, NaN, NaN, shortName>>,
      <<NaN, NaN, NaN, NaN, T("2018-10")>>>>

\* the tables of one spreadsheet, by region
DefaultTables ==
    [ident2a |-> IdentTable2a(S(<<"Software", ":">>), S(<<"Version", ":">>), S(<<"Date", ":">>)),
     zone_loads |-> <<<<I(600)>> \o Repeat(F(43), 10), <<I(900)>> \o Repeat(F(21), 10)>>,
     incident |-> <<<<T("South"), F(15000)>>, <<T("West"), F(10000)>>>>,
     unshaded |-> <<<<S(<<"600", "/", "South">>), F(9000)>>, <<S(<<"620", "/", "West">>), F(7000)>>>>,
     shaded |-> <<<<S(<<"610", "/", "South">>), F(8000)>>>>,
     sky |-> <<<<I(600)>> \o Repeat(F(55), 9)>>,
     bins |-> <<<<I(-5), I(10)>>, <<I(0), F(200)>>>>,
     free_float |-> <<<<T("600FF")>> \o Repeat(F(250), 9), <<T("900FF")>> \o Repeat(F(260), 9)>>,
     monthly |-> <<<<T("Jan")>> \o Repeat(F(5), 8) \o Repeat(F(7), 8)>>,
     ident2b |-> IdentTable2b(S(<<"EnergyPlus", " ", "9.0">>), T("EnergyPlus")),
     steady |-> <<<<T("GC10a"), F(26), F(26), F(300), I(10)>>>>]

\* the spreadsheet that holds the tables at the places of the built-in instructions
DocOf(t) ==
    LET at(src) == PadSource(src)
        a == DataSources2A
        b == DataSources2B
    IN (at(a["identifying_information"]) :> t.ident2a)
       @@ (at(a["conditioned_zone_loads_non_free_float"]) :> t.zone_loads)
       @@ (at(a["solar_radiation_annual_incident"]) :> t.incident)
       @@ (at(a["solar_radiation_unshaded_annual_transmitted"]) :> t.unshaded)
       @@ (at(a["solar_radiation_shaded_annual_transmitted"]) :> t.shaded)
       @@ (at(a["sky_temperature_output"]) :> t.sky)
       @@ (at(a["annual_hourly_zone_temperature_bin_data"]) :> t.bins)
       @@ (at(a["free_float_case_zone_temperatures"]) :> t.free_float)
       @@ (at(a["monthly_conditioned_zone_loads"]) :> t.monthly)
       @@ (at(b["identifying_information"]) :> t.ident2b)
       @@ (at(b["steady_state_cases"]) :> t.steady)

\* document names: every sequence of at most MaxNameLen tokens
NameTokens == {"results5-2", "RESULTS5-2", "a", "A", "b", "x", "\n"}
Names == UNION {[1..n -> NameTokens] : n \in 1..MaxNameLen}
FewNames == {<<"RESULTS5-2", "a">>, <<"x", "results5-2", "b">>, <<"x">>}

\* a dictionary of instructions without the region r
Without(sources, r) == [k \in DOMAIN sources \ {r} |-> sources[k]]
Overrides ==
    {NoSources, DataSources2A, DataSources2B}
        \cup {Without(DataSources2A, r) : r \in DOMAIN DataSources2A}
        \cup {Without(DataSources2B, r) : r \in DOMAIN DataSources2B}

\* the cells a label of the identifying information may hold
Labels(word) == {S(<<word, ":">>), T("Program"), NaN}

\* spreadsheets that differ from the default one in one region
IdentDocs ==
    {DocOf([DefaultTables EXCEPT !.ident2a = IdentTable2a(l1, l2, l3)]) :
        l1 \in Labels("Software"), l2 \in Labels("Version"), l3 \in Labels("Date")}
        \cup {DocOf([DefaultTables EXCEPT !.ident2b = IdentTable2b(n, T("EnergyPlus"))]) :
                n \in {S(<<"EnergyPlus", " ", "9.0">>), T("9.0"), NaN}}
BrokenDocs ==
    {DocOf([DefaultTables EXCEPT !.sky = <<<<I(600)>> \o Repeat(T("#VALUE!"), 9)>>]),
     DocOf([DefaultTables EXCEPT !.sky = <<<<I(600)>> \o Repeat(F(55), 8)>>]),
     DocOf([DefaultTables EXCEPT !.monthly = <<<<T("Jan")>> \o Repeat(F(5), 8)>>]),
     DocOf([DefaultTables EXCEPT !.monthly = <<<<T("Jan")>> \o Repeat(NaN, 8) \o Repeat(F(7), 8)>>]),
     DocOf([DefaultTables EXCEPT !.steady = <<<<T("GC10a"), F(26)>>>>]),
     DocOf([DefaultTables EXCEPT !.incident = <<<<T("South"), T("#VALUE!")>>>>])}

BinRowChoices ==
    {<<I(-5), I(10)>>, <<I(0), F(200)>>, <<F(100), I(3)>>, <<F(205), I(3)>>,
     <<I(20), F(-55)>>, <<T("abc"), I(1)>>, <<NaN, I(1)>>}
BinDocs ==
    {DocOf([DefaultTables EXCEPT !.bins = t]) :
        t \in {t \in TablesOf(BinRowChoices) : DistinctKeys(t)}}

UnshadedRowChoices ==
    {<<S(<<"600", "/", "South">>), F(9000)>>, <<S(<<"600", "/", "West">>), F(7000)>>,
     <<S(<<"620", "/", "West">>), F(7000)>>, <<S(<<"620", "/", "South">>), NaN>>,
     <<T("660"), F(9000)>>, <<S(<<"610", "/", "South", "/", "x">>), F(9000)>>,
     <<NaN, F(9000)>>}
ShadedRowChoices ==
    {<<S(<<"610", "/", "South">>), F(8000)>>, <<S(<<"610", "/", "West">>), F(6000)>>,
     <<S(<<"630", "/", "West">>), F(6000)>>}
TransmittedDocs ==
    {DocOf([DefaultTables EXCEPT !.unshaded = t]) :
        t \in {t \in NonEmptyTablesOf(UnshadedRowChoices) : DistinctKeys(t)}}
        \cup {DocOf([DefaultTables EXCEPT !.shaded = t]) :
                t \in {t \in NonEmptyTablesOf(ShadedRowChoices) : DistinctKeys(t)}}

ZoneLoadRowChoices ==
    {<<I(600)>> \o Repeat(F(43), 10), <<I(900)>> \o Repeat(F(21), 10),
     <<I(610)>> \o Repeat(NaN, 10), <<I(910)>> \o Repeat(NaN, 10),
     <<F(6200)>> \o Repeat(F(40), 10), <<I(920)>> \o Repeat(T("#VALUE!"), 10)}
FreeFloatRowChoices ==
    {<<T("600FF")>> \o Repeat(F(250), 9), <<T("900FF")>> \o Repeat(F(260), 9),
     <<T("650FF")>> \o Repeat(NaN, 9), <<NaN>> \o Repeat(F(270), 9)}
CaseDocs ==
    {DocOf([DefaultTables EXCEPT !.zone_loads = t]) :
        t \in {t \in TablesOf(ZoneLoadRowChoices) : DistinctKeys(t)}}
        \cup {DocOf([DefaultTables EXCEPT !.free_float = t]) :
                t \in {t \in TablesOf(FreeFloatRowChoices) : DistinctKeys(t)}}

\* ---------------------------------------------------------- specifications
\* every name, on the default spreadsheet
InitClassify ==
    /\ name \in Names
    /\ override \in {NoSources, DataSources2A}
    /\ file_location = DocOf(DefaultTables)
    /\ reindex = FALSE
    /\ objects = 1
    /\ held = Unset
    /\ Fresh

\* every data_sources argument on spreadsheets with a varied identifying
\* information and with regions that fail, and the built-in instructions on
\* spreadsheets with varied tables
InitPipeline ==
    /\ name \in FewNames
    /\ \/ override \in Overrides /\ file_location \in IdentDocs \cup BrokenDocs
       \/ override = NoSources /\ file_location \in BinDocs \cup TransmittedDocs \cup CaseDocs
    /\ reindex \in BOOLEAN
    /\ objects = 1
    /\ held = Unset
    /\ Fresh

SpecClassify == InitClassify /\ [][Next]_vars
SpecPipeline == InitPipeline /\ [][Next]_vars
Init == InitPipeline
Spec == SpecPipeline

\* ----------------------------------------------------------------- claims
\* what the current object's extractor of the i-th key returns
ResultOf(i) == Extractor(section_type, ProcessingKeys(section_type)[i], data_sources, file_location, reindex)
KeyIndices == 1..Len(ProcessingKeys(section_type))
KeyCell(i) == T(ProcessingKeys(section_type)[i])

\* the name contains the signature, letter case aside
Contains(t, sig) == \E i \in 1..Len(t) : OccursAt(Lower(t), sig, i)

\* C1: once the classification has run, a name containing 'results5-2a' has
\* the tag '5-2A', a name containing 'results5-2b' and not 'results5-2a' has
\* the tag '5-2B', and any other name has no tag and has made the
\* classification fail with UnsupportedVariant naming the input.
C1_ClassificationTotal ==
    pc # "section_type" =>
        /\ Contains(name, <<"results5-2", "a">>) => section_type = "5-2A"
        /\ Contains(name, <<"results5-2", "b">>) /\ ~Contains(name, <<"results5-2", "a">>)
                => section_type = "5-2B"
        /\ ~Contains(name, <<"results5-2", "a">>) /\ ~Contains(name, <<"results5-2", "b">>)
                => /\ section_type = "unset"
                   /\ pc = "failed"
                   /\ err.kind = "UnsupportedVariant"

\* C2: after construction and run(), software_name, software_version and
\* software_release_date hold what the identifying-information extractor read
\* from a document with valid labels.
C2_MetadataRetrievable ==
    pc = "ran" /\ ResultOf(1).logs = <<>> =>
        /\ software_name = ResultOf(1).software_name
        /\ software_version = ResultOf(1).software_version
        /\ software_release_date = ResultOf(1).software_release_date

\* C3: the pipeline is all-or-nothing. After run() the result holds the
\* fragment of every region of the variant and no extractor has failed; a
\* failure anywhere leaves an error for the caller and no result; and at no
\* time does test_data hold the fragments of only some regions.
C3_AllOrNothing ==
    /\ pc = "ran" =>
        /\ err = NoErr
        /\ section_type # "unset"
        /\ Keys(test_data, <<>>) = {KeyCell(i) : i \in KeyIndices}
        /\ \A i \in KeyIndices :
            /\ ResultOf(i).err = NoErr
            /\ Sub(test_data, <<KeyCell(i)>>) = ResultOf(i).frag
    /\ pc = "failed" => err # NoErr /\ test_data = Unset
    /\ pc # "failed" => err = NoErr
    /\ pc # "ran" => test_data \in {Unset, NewDict}
    /\ pc \in {"attributes", "constructed"} =>
        /\ section_type # "unset"
        /\ \A i \in KeyIndices : ResultOf(i).err = NoErr

\* a later region's extractor has failed after the earlier ones succeeded
C3_Witness ==
    /\ pc = "failed"
    /\ err.region = "sky_temperature_output"
    /\ test_data = Unset

\* C4: run() is idempotent and deterministic. A second run() on the same
\* object leaves the result as it was, the result of a second pipeline object
\* on the same document and data_sources equals the one the first produced,
\* and no step changes the document.
C4_Idempotent ==
    [][/\ pc = "ran" /\ pc' = "ran" => test_data' = test_data
       /\ pc' = "ran" /\ held' # Unset => test_data' = held'
       /\ file_location' = file_location]_vars

\* a second object has run twice on a document that gives a result
C4_Witness ==
    /\ pc = "ran"
    /\ runs = 2
    /\ objects = 2
    /\ held = test_data
    /\ Keys(test_data, <<>>) # {}

\* the three label cells of the 5-2A identifying information, as read
LabelCell(i) == file_location[PadSource(data_sources["identifying_information"])][i][1]
ValueCell(i) == file_location[PadSource(data_sources["identifying_information"])][i][2]
LabelMatches(i, word) == LabelCell(i).t = "str" /\ StartsWith(LabelCell(i).s, <<word>>)

\* C5: the 5-2A identifying-information extractor is lenient. Whatever
\* a label cell holds, the extractor raises no failure; a field whose label
\* does not start with the expected word is None and an error is logged, and
\* a field whose label matches holds the value beside it.
C5_LenientIdentification ==
    /\ section_type = "5-2A"
    /\ pc \in {"attributes", "failed"}
    /\ "identifying_information" \in DOMAIN data_sources
    => /\ err.region # "identifying_information"
       /\ software_name = (IF LabelMatches(1, "Software") THEN ValueCell(1) ELSE None)
       /\ software_version = (IF LabelMatches(2, "Version") THEN ValueCell(2) ELSE None)
       /\ software_release_date = (IF LabelMatches(3, "Date") THEN ValueCell(3) ELSE None)
       /\ ~LabelMatches(1, "Software")
            => \E k \in 1..Len(log) : log[k].msg = "Software name information not found"
       /\ ~LabelMatches(2, "Version")
            => \E k \in 1..Len(log) : log[k].msg = "Software version information not found"
       /\ ~LabelMatches(3, "Date")
            => \E k \in 1..Len(log) : log[k].msg = "Software release date information not found"

\* C6: when a requested region has no instructions in data_sources, the
\* failure the reader raises names the region that was requested.
C6_RegionNotFoundNamesRegion ==
    err.kind = "ASHRAE140ProcessingError" => err.names = err.region

\* two fragments set the same leaf key path to different values
FragmentsConflict ==
    \E i, j \in KeyIndices :
        /\ i # j
        /\ \E p \in DOMAIN ResultOf(i).frag \cap DOMAIN ResultOf(j).frag :
                ResultOf(i).frag[p] # ResultOf(j).frag[p]

RawFrame(region) == ReadExcel(file_location, PadSource(data_sources[region]))
Constructed == pc \in {"attributes", "constructed", "ran"}

\* a number without a fractional part
IntegerValued(c) == c.t = "int" \/ (c.t = "float" /\ c.n % 10 = 0)
IntegerOf(c) == IF c.t = "int" THEN c.n ELSE c.n \div 10

\* C8: when the temperature-bin extractor has returned, every row (bin,
\* count) of its table is integer-valued and is stored as
\* ['900FF']['temperature_bin_c'][bin] = {'number_of_hours': count}; a row
\* with a fractional or non-numeric bin or count makes the extractor fail.
C8_BinsIntegerOrFail ==
    section_type = "5-2A" /\ Constructed =>
        LET df == RawFrame("annual_hourly_zone_temperature_bin_data")
            frag == Sub(processing_functions, <<T("hourly_annual_zone_temperature_bin_data")>>)
        IN \A k \in 1..Len(df) :
            /\ IntegerValued(df[k].cells[1])
            /\ IntegerValued(df[k].cells[2])
            /\ LET p == <<T("900FF"), T("temperature_bin_c"), I(IntegerOf(df[k].cells[1])),
                          T("number_of_hours")>>
               IN p \in DOMAIN frag /\ frag[p] = I(IntegerOf(df[k].cells[2]))

\* C9: when the extractors of the transmitted solar radiation have returned,
\* every cleansed row 'c/s' with value v is in the fragment as
\* [c]['Surface'][s]['kWh/m2'] = v, also when rows share a case.
C9_AllSurfacesKept ==
    section_type = "5-2A" /\ Constructed =>
        \A region \in {"solar_radiation_unshaded_annual_transmitted",
                       "solar_radiation_shaded_annual_transmitted"} :
            LET df == Cleanse(SplitCaseSurface(RawFrame(region)), reindex)
                frag == Sub(processing_functions, <<T(region)>>)
            IN \A k \in 1..Len(df) :
                LET p == <<df[k].cells[2], T("Surface"), df[k].cells[3], T("kWh/m2")>>
                IN p \in DOMAIN frag /\ frag[p] = df[k].cells[1]

\* the cleansed table of a per-case region and the names of its columns
CaseFrame(region) ==
    IF region = "conditioned_zone_loads_non_free_float"
    THEN Cleanse(CaseAsStr(RawFrame(region)), reindex)
    ELSE Cleanse(RawFrame(region), reindex)
CaseColumns(region) ==
    IF region = "conditioned_zone_loads_non_free_float" THEN ZoneLoadColumns ELSE FreeFloatColumns

\* C10: the per-case extractors do not fail on a row that survived the
\* cleansing, and when they have returned, the fragment maps the first column
\* of every cleansed row, as text, to the other columns of that same row -
\* also when the cleanser dropped rows and kept the labels of the others.
C10_RowsKeepOwnValues ==
    section_type = "5-2A" /\ pc \in {"attributes", "failed"} =>
        /\ ~(/\ err.kind = "IndexError"
             /\ err.region \in {"conditioned_zone_loads_non_free_float",
                                "free_float_case_zone_temperatures"})
        /\ pc = "attributes" =>
            \A region \in {"conditioned_zone_loads_non_free_float",
                           "free_float_case_zone_temperatures"} :
                LET df == CaseFrame(region)
                    frag == Sub(processing_functions, <<T(region)>>)
                IN \A k \in 1..Len(df) : \A j \in 2..Len(CaseColumns(region)) :
                    LET p == <<PyStr(df[k].cells[1]), T(CaseColumns(region)[j])>>
                    IN p \in DOMAIN frag /\ frag[p] = df[k].cells[j]

====
